---- MODULE Spec2Model ----
(***************************************************************************)
(* Model of src/ai_rename_exam_docs.py: the per-file decision pipeline     *)
(* (call_ai_api with its retry loop, the escalation decision, manual       *)
(* review, the rule engine), the collision-safe naming step, the file      *)
(* operation and the loop of main().                                       *)
(*                                                                         *)
(* Strings are finite sequences of tokens; a token stands for a run of     *)
(* characters of the Python string (TLA+ strings are ASCII, so the Chinese *)
(* literals of the source are written in pinyin):                          *)
(*   "qimo" = U+671F U+672B, "qizhong" = U+671F U+4E2D,                    *)
(*   "weizhi xueqi" = the literal for 'unknown semester',                  *)
(*   "daidaan" = 'with answers', "wudaan" = 'without answers',             *)
(*   "nian" = the year character, "chun"/"qiu" = spring/autumn,            *)
(*   "daan" = 'answer', "jieda" = 'solution', " " and "nl" = white space.  *)
(* Confidence values are in hundredths (0.7 is 70).                        *)
(***************************************************************************)
EXTENDS Integers, Sequences, FiniteSets, TLC

(* ------------------------------ bounds --------------------------------- *)

\* number of files main() collects at most
MaxFiles == 2

(* ------------------------- program constants --------------------------- *)

\* for attempt in range(3)
MaxAttempts == 3
\* if confidence < 0.7, in hundredths
ConfThreshold == 70
\* "confidence": 1.0 of manual_intervention, in hundredths
ManualConfidence == 100
\* "confidence": 0.5 of fallback_rule_engine, in hundredths
RuleConfidence == 50

(* --------------------------- string helpers ---------------------------- *)

IsSpace(t) == t \in {" ", "nl"}

RECURSIVE LStrip(_)
LStrip(s) == IF s # <<>> /\ IsSpace(Head(s)) THEN LStrip(Tail(s)) ELSE s

RECURSIVE RStrip(_)
RStrip(s) ==
    IF s # <<>> /\ IsSpace(s[Len(s)]) THEN RStrip(SubSeq(s, 1, Len(s) - 1)) ELSE s

\* str.strip()
Strip(s) == RStrip(LStrip(s))

LowerTok(t) ==
    CASE t = "Y" -> "y"
      [] t = "N" -> "n"
      [] t = "E" -> "e"
      [] t = "S" -> "s"
      [] OTHER -> t

\* str.lower()
Lower(s) == [i \in 1..Len(s) |-> LowerTok(s[i])]

\* needle in haystack (substring test)
Contains(hay, needle) ==
    \E i \in 0..(Len(hay) - Len(needle)) :
        \A j \in 1..Len(needle) : hay[i + j] = needle[j]

RECURSIVE Pow2(_)
Pow2(n) == IF n = 0 THEN 1 ELSE 2 * Pow2(n - 1)

RECURSIVE SumSeq(_)
SumSeq(s) == IF s = <<>> THEN 0 ELSE Head(s) + SumSeq(Tail(s))

(* ------------------------------ values --------------------------------- *)

\* Python None, an unassigned local, and the lists json.loads gives for a
\* JSON array with one item and for the empty array
None == [kind |-> "None"]
Unset == [kind |-> "unset"]
JsonList == [kind |-> "list", items |-> 1]
JsonEmptyList == [kind |-> "list", items |-> 0]
MkDict(f) == [kind |-> "dict", d |-> f]
IsDict(v) == v.kind = "dict"

Num(n) == <<"num", n>>
NonNumeric == <<"str", 0>>

\* dict.get(key, default)
Get(v, key, default) == IF key \in DOMAIN v.d THEN v.d[key] ELSE default

\* bool(x) for the values an AI result can take
Truthy(v) ==
    CASE v.kind = "None" -> FALSE
      [] v.kind = "dict" -> DOMAIN v.d # {}
      [] v.kind = "list" -> v.items > 0
      [] OTHER -> TRUE

FullDict(exam, sem, ans, conf) ==
    MkDict(("exam_type" :> exam) @@ ("semester" :> sem) @@ ("has_answer" :> ans)
           @@ ("confidence" :> conf) @@ ("reasoning" :> <<"because">>))

Without(v, key) == MkDict([k \in DOMAIN v.d \ {key} |-> v.d[k]])

DictHigh == FullDict(<<"qizhong">>, <<"2023", "chun">>, <<"daidaan">>, Num(90))
DictEdge == FullDict(<<"qimo">>, <<"weizhi xueqi">>, <<"wudaan">>, Num(70))
DictLow == FullDict(<<"qimo">>, <<"2024">>, <<"wudaan">>, Num(69))

\* The JSON texts the service may answer with, and the value json.loads gives.
JsonTexts ==
    {"J_high", "J_edge", "J_low", "J_noconf", "J_strconf", "J_empty", "J_nosem",
     "J_null", "J_list", "J_emptylist"}

JsonValue(t) ==
    CASE t = "J_high" -> DictHigh
      [] t = "J_edge" -> DictEdge
      [] t = "J_low" -> DictLow
      [] t = "J_noconf" -> Without(DictHigh, "confidence")
      [] t = "J_strconf" -> MkDict([DictHigh.d EXCEPT !["confidence"] = NonNumeric])
      [] t = "J_empty" -> MkDict(<<>>)
      [] t = "J_nosem" -> Without(DictHigh, "semester")
      [] t = "J_null" -> None
      [] t = "J_list" -> JsonList
      [] t = "J_emptylist" -> JsonEmptyList

(* ---------------------------- call_ai_api ------------------------------- *)

\* os.getenv: unset (None), set to the empty string, or set
EnvValues == {"unset", "empty", "set"}

\* faulty variant of ConfigMissing: the check passes as soon as one of the two is set
ConfigMissing_Both(url, key) == url # "set" /\ key # "set"

\* not OPENAI_BASE_URL or not OPENAI_API_KEY
ConfigMissing(url, key) == url # "set" \/ key # "set"

\* faulty variant of Backoff: a linear backoff
Backoff_Linear(k) == 2 * k

\* time.sleep(2 ** attempt)
Backoff(k) == Pow2(k)

\* faulty variant of SleepAfter: every failed attempt sleeps
SleepAfter_Always(kind, k) == Pow2(k)

\* What one pass of the retry loop can meet: the call raises, the response
\* carries no text (content is None, or choices is empty), or it carries text.
\* "malformed" is a text json.loads rejects.
FailureKinds == {"transport", "badcontent", "malformed"}

\* The wait the loop body makes after a failed attempt: the outer handler
\* sleeps, the JSONDecodeError handler continues at once.
SleepAfter(kind, k) == IF kind = "malformed" THEN 0 ELSE Backoff(k)

\* faulty variant of Catches: only the JSONDecodeError handler is there
Catches_OnlyJson(kind) == kind = "malformed"

\* except json.JSONDecodeError, and except Exception around the client and
\* around the loop body: every failure but KeyboardInterrupt, which is no
\* Exception.
Catches(kind) == kind # "interrupt"

\* what leaves call_ai_api when no handler catches the failure
Escapes(kind) == IF kind = "interrupt" THEN "interrupt" ELSE "exception"

\* Removes a leading json fence ("FENCE_JSON" is the three backquotes followed
\* by json, 7 characters), then a trailing fence ("FENCE", three backquotes),
\* then strips white space, in this order.
CleanFence(c) ==
    LET a == IF c # <<>> /\ Head(c) = "FENCE_JSON" THEN Tail(c) ELSE c
        b == IF a # <<>> /\ a[Len(a)] = "FENCE" THEN SubSeq(a, 1, Len(a) - 1) ELSE a
    IN  Strip(b)

\* json.loads succeeds on exactly one JSON text
JsonOk(c) == Len(c) = 1 /\ c[1] \in JsonTexts

json_loads(c) == JsonValue(c[1])

\* The texts a response may carry.
Responses ==
    {<<t>> : t \in JsonTexts}
    \cup {<<"FENCE_JSON", "nl", "J_high", "nl", "FENCE">>,
          <<"FENCE_JSON", "nl", "J_edge", "nl", "FENCE", "nl">>,
          <<"FENCE", "nl", "J_high", "nl", "FENCE">>,
          <<"sorry">>}

(* ------------------------- manual_intervention ------------------------- *)

\* if ai_result: print(... ai_result.get('exam_type', 'N/A') ...)
\* A true value that is not a dict has no get: AttributeError, raised before
\* the first prompt.
DisplayRaises(ai) == Truthy(ai) /\ ~IsDict(ai)

OrDefault(s, default) == IF Strip(s) = <<>> THEN default ELSE Strip(s)

manual_intervention(exam_in, sem_in, ans_in) ==
    MkDict(("exam_type" :> OrDefault(exam_in, <<"qimo">>))
           @@ ("semester" :> OrDefault(sem_in, <<"weizhi xueqi">>))
           @@ ("has_answer" :> OrDefault(ans_in, <<"wudaan">>))
           @@ ("confidence" :> Num(ManualConfidence))
           @@ ("reasoning" :> <<"rengong jieru">>))

\* what the human may type at the three prompts (exam_type, semester, has_answer)
ManualInputs ==
    {<<<<>>, <<>>, <<>>>>,
     <<<<" ", "qizhong", " ">>, <<"2023", "chun">>, <<"daidaan">>>>,
     <<<<"qizhong">>, <<" ">>, <<"huiyiban">>>>}

(* ------------------------- fallback_rule_engine ------------------------ *)

IsYear4(t) == t \in {"2022", "2023", "2024"}

\* positions where the pattern (4 digits)(year character) matches
YearAt(c) == {i \in 1..(Len(c) - 1) : IsYear4(c[i]) /\ c[i + 1] = "nian"}

\* positions where the pattern (4 digits)-(4 digits) matches
RangeAt(c) ==
    {i \in 1..(Len(c) - 2) : IsYear4(c[i]) /\ c[i + 1] = "-" /\ IsYear4(c[i + 2])}

Leftmost(S) == CHOOSE i \in S : \A j \in S : i <= j

AnswerKeywords ==
    {<<"daan">>, <<"cankao", "daan">>, <<"jieda">>, <<"-", "ans">>, <<"han", "daan">>,
     <<"ans">>}

RuleSemester(c) ==
    IF YearAt(c) = {} THEN <<"weizhi xueqi">>
    ELSE LET base == IF RangeAt(c) # {}
                     THEN <<c[Leftmost(RangeAt(c))], "-", c[Leftmost(RangeAt(c)) + 2]>>
                     ELSE <<c[Leftmost(YearAt(c))]>>
         IN  IF Contains(c, <<"chun", "ji">>) \/ Contains(c, <<"chun">>)
             THEN base \o <<"chun", "ji">>
             ELSE IF Contains(c, <<"qiu", "ji">>) \/ Contains(c, <<"qiu">>)
                  THEN base \o <<"qiu", "ji">>
                  ELSE base

fallback_rule_engine(text, file_name) ==
    MkDict(("exam_type" :> IF Contains(text, <<"qizhong">>) \/ Contains(file_name, <<"qizhong">>)
                           THEN <<"qizhong">> ELSE <<"qimo">>)
           @@ ("semester" :> RuleSemester(text \o file_name))
           @@ ("has_answer" :> IF \E kw \in AnswerKeywords : Contains(text \o file_name, kw)
                               THEN <<"daidaan">> ELSE <<"wudaan">>)
           @@ ("confidence" :> Num(RuleConfidence))
           @@ ("reasoning" :> <<"guize yinqing">>))

(* ------------------------------ naming --------------------------------- *)

NameKeys == {"exam_type", "semester", "has_answer"}

\* f"{exam_type}-{semester}-<daidaan|wudaan>.pdf"
NewName(r) ==
    r.d["exam_type"] \o <<"-">> \o r.d["semester"] \o <<"-">>
    \o (IF r.d["has_answer"] = <<"daidaan">> THEN <<"daidaan">> ELSE <<"wudaan">>)
    \o <<".", "pdf">>

LastDot(n) == CHOOSE i \in 1..Len(n) : n[i] = "." /\ \A j \in (i + 1)..Len(n) : n[j] # "."

\* name_parts = new_name.rsplit('.', 1); f"{name_parts[0]}_{counter}.{name_parts[1]}"
Suffixed(n, counter) ==
    SubSeq(n, 1, LastDot(n) - 1) \o <<"_", ToString(counter)>> \o <<".">>
    \o SubSeq(n, LastDot(n) + 1, Len(n))

\* while (output_dir / final_name).exists(): ...
RECURSIVE Resolve(_, _, _, _)
Resolve(new_name, counter, final, dir) ==
    IF final \in dir
    THEN Resolve(new_name, counter + 1, Suffixed(new_name, counter), dir)
    ELSE final

\* faulty variant of FinalName: existence is not checked again after the suffix
FinalName_NoRecheck(new_name, dir) ==
    IF new_name \in dir THEN Suffixed(new_name, 1) ELSE new_name

\* counter = 1; final_name = new_name; the loop
FinalName(new_name, dir) == Resolve(new_name, 1, new_name, dir)

(* ------------------------- escalation decision ------------------------- *)

\* confidence = ai_result.get('confidence', 0)
Confidence(ai) == Get(ai, "confidence", Num(0))

\* Python orders a number and a float; a str (or None) against a float raises
\* TypeError.
Comparable(c) == c[1] = "num"

\* faulty variant of LowConfidence: the threshold itself counts as low
LowConfidence_Inclusive(c) == c[2] <= ConfThreshold

\* confidence < 0.7
LowConfidence(c) == c[2] < ConfThreshold

\* faulty variant of Affirmative: the answer is not lower-cased
Affirmative_NoLower(answer) == Strip(answer) = <<"y">>

\* input(...).strip().lower() == 'y'
Affirmative(answer) == Lower(Strip(answer)) = <<"y">>

\* what the human may type at a yes/no prompt
YesNoAnswers == {<<>>, <<"y">>, <<" ", "Y", " ">>, <<"y", "e", "s">>, <<"n">>}

\* faulty variant of UseAiResult: the truth test of ai_result is dropped
UseAiResult_AnyDict(ai) == IsDict(ai)

\* elif ai_result and isinstance(ai_result, dict)
UseAiResult(ai) == Truthy(ai) /\ IsDict(ai)

(* ------------------------------ inputs --------------------------------- *)

\* file_path.suffix.lower() and file_path.stem
Suffix(name) == Lower(SubSeq(name, LastDot(name), Len(name)))
Stem(name) == SubSeq(name, 1, LastDot(name) - 1)

IsWord(name) == Suffix(name) \in {<<".", "doc">>, <<".", "docx">>}

\* The files main() may collect: the name of the file and what get_file_info
\* returns for it ("" on any extraction error).
FileTasks ==
    {[name |-> <<"exam", ".", "pdf">>, text |-> <<>>],
     [name |-> <<"exam", ".", "pdf">>,
      text |-> <<"2023", "-", "2024", "xue", "nian", "di", "yi", "xue", "qi", " ",
                 "qizhong", " ", "han", "daan">>],
     [name |-> <<"2022", "nian", "qiu", "-", "ans", ".", "docx">>, text |-> <<" ", "nl">>],
     [name |-> <<"mid", ".", "docx">>,
      text |-> <<"2023", "nian", "chun", "ji", "qizhong", "kaoshi">>]}

DefaultName == <<"qimo", "-", "weizhi xueqi", "-", "wudaan", ".", "pdf">>

\* the output directory is created if absent and never cleared
InitialDirs == {{}, {DefaultName}}

(* ------------------------------- state --------------------------------- *)

VARIABLES
    OPENAI_BASE_URL,  \* module globals, read once from the environment
    OPENAI_API_KEY,
    nfiles,           \* len(files) in main
    force_manual,     \* main's force_manual
    idx,              \* files the loop of main has taken so far
    processed_count,  \* main's processed_count
    outdir,           \* names present in output_dir
    pc,               \* where the run is
    file,             \* process_file_with_ai: file_path.name
    text_content,
    ai_result,
    use_manual,
    final_result,
    new_name,
    final_name,
    attempt,          \* call_ai_api: the loop variable
    content,          \* call_ai_api: the text of the last response
    incomplete,       \* names in output_dir whose content is only partly written
    reported,         \* the count main prints at its end (NotReported before)
    tr,               \* what happened to the current file (history)
    hist              \* how each file taken so far ended, in order (history)

vars ==
    <<OPENAI_BASE_URL, OPENAI_API_KEY, nfiles, force_manual, idx, processed_count,
      outdir, pc, file, text_content, ai_result, use_manual, final_result, new_name,
      final_name, attempt, content, incomplete, reported, tr, hist>>

env == <<OPENAI_BASE_URL, OPENAI_API_KEY, nfiles>>
locals == <<file, text_content, ai_result, use_manual, final_result, new_name, final_name>>
callLocals == <<attempt, content>>

NoName == <<>>
NotReported == -1

FreshTrace ==
    [aiCalls |-> 0,          \* invocations of call_ai_api
     returned |-> FALSE,     \* call_ai_api has returned
     aiShape |-> "unset",    \* what it returned: "None", "dict" or "other"
     configOk |-> FALSE,     \* the configuration check passed
     clientTried |-> FALSE,  \* OpenAI(...) was evaluated
     clientOk |-> FALSE,     \* and gave a client: the retry loop was entered
     outcomes |-> <<>>,      \* per remote call: "ok" or a failure kind
     slept |-> <<>>,         \* per remote call: the sleep that followed it
     asked |-> 0,            \* confirmation questions put to the human
     answer |-> <<>>,        \* the raw answer to the confirmation question
     manualCalls |-> 0,      \* invocations of manual_intervention
     manualRet |-> Unset,    \* what manual_intervention returned
     ruleCalls |-> 0,        \* invocations of fallback_rule_engine
     tier |-> "none",        \* which branch assigned final_result
     lacks |-> {},           \* the keys of the name the final result has not
     dirBefore |-> {},       \* output_dir when the file was taken
     named |-> FALSE,        \* new_path was computed
     final |-> NoName,       \* final_name, once computed
     written |-> FALSE,      \* the file operation put the output file in place
     outcome |-> "running"]  \* how it ended: "returned" or what was raised

Init ==
    /\ OPENAI_BASE_URL \in EnvValues
    /\ OPENAI_API_KEY \in EnvValues
    /\ nfiles \in 0..MaxFiles
    /\ outdir \in InitialDirs
    /\ force_manual = FALSE
    /\ idx = 0
    /\ processed_count = 0
    /\ pc = "main"
    /\ file = NoName
    /\ text_content = <<>>
    /\ ai_result = None
    /\ use_manual = FALSE
    /\ final_result = Unset
    /\ new_name = NoName
    /\ final_name = NoName
    /\ attempt = 0
    /\ content = <<>>
    /\ incomplete = {}
    /\ reported = NotReported
    /\ tr = FreshTrace
    /\ hist = <<>>

(* ------------------------------ main() --------------------------------- *)

\* if not files: return
NoFiles ==
    /\ pc = "main"
    /\ nfiles = 0
    /\ pc' = "done"
    /\ UNCHANGED <<env, force_manual, idx, processed_count, outdir, locals, callLocals,
                   incomplete, reported, tr, hist>>

\* the run-level prompt; EOFError and KeyboardInterrupt give False
AskForceManual ==
    /\ pc = "main"
    /\ nfiles > 0
    /\ \/ \E a \in YesNoAnswers : force_manual' = Affirmative(a)
       \/ force_manual' = FALSE
    /\ pc' = "loop"
    /\ UNCHANGED <<env, idx, processed_count, outdir, locals, callLocals, incomplete,
                   reported, tr, hist>>

\* print("... processed_count/len(files) ...")
Finish ==
    /\ \/ pc = "loop" /\ idx = nfiles
       \/ pc = "interrupted"
    /\ reported' = processed_count
    /\ pc' = "done"
    /\ UNCHANGED <<env, force_manual, idx, processed_count, outdir, locals, callLocals,
                   incomplete, tr, hist>>

(* ----------------------- process_file_with_ai -------------------------- *)

\* The frame of process_file_with_ai (and of call_ai_api) is gone.
DropLocals ==
    /\ file' = NoName
    /\ text_content' = <<>>
    /\ ai_result' = None
    /\ use_manual' = FALSE
    /\ final_result' = Unset
    /\ new_name' = NoName
    /\ final_name' = NoName
    /\ attempt' = 0
    /\ content' = <<>>

\* The call of process_file_with_ai made by main's loop has ended in this
\* step: how it ended is appended to hist.
Log ==
    hist' = IF tr.outcome = "running" /\ tr'.outcome # "running"
            THEN Append(hist, [pos |-> idx,
                               outcome |-> tr'.outcome,
                               written |-> tr'.written,
                               final |-> IF tr'.written THEN tr'.final ELSE NoName])
            ELSE hist

\* faulty variant of Handler: any exception ends the loop
Handler_AbortsOnError(kind) == "interrupted"

\* faulty variant of Handler: the interrupt is printed like any other error
Handler_GoesOn(kind) == "loop"

\* What can leave process_file_with_ai: KeyboardInterrupt ("interrupt"), the
\* EOFError of input() ("eof"), a TypeError or KeyError ("exception").
\* Where main continues: except KeyboardInterrupt: break;
\* except Exception: print, next file.
Handler(kind) == IF kind = "interrupt" THEN "interrupted" ELSE "loop"

\* An exception leaves process_file_with_ai and reaches main's handlers;
\* t is the history up to the raise.
RaiseFrom(kind, t) ==
    /\ pc' = Handler(kind)
    /\ tr' = [t EXCEPT !.outcome = kind, !.outcomes = <<>>, !.slept = <<>>]
    /\ DropLocals
    /\ UNCHANGED <<processed_count, outdir>>

Raise(kind) == RaiseFrom(kind, tr)

\* faulty variant of FirstStep: the AI is called whatever force_manual says
FirstStep_AlwaysAi(fm) == "call_ai"

\* if not force_manual: ai_result = call_ai_api(...)
FirstStep(fm) == IF fm THEN "select" ELSE "call_ai"

\* The loop takes the next file; text extraction (the file name stands in
\* for a blank text); ai_result = None; use_manual = force_manual.
StartFile ==
    /\ pc = "loop"
    /\ idx < nfiles
    /\ idx' = idx + 1
    /\ \E f \in FileTasks :
          /\ file' = f.name
          /\ text_content' = IF Strip(f.text) = <<>> THEN f.name ELSE f.text
    /\ ai_result' = None
    /\ use_manual' = force_manual
    /\ final_result' = Unset
    /\ new_name' = NoName
    /\ final_name' = NoName
    /\ tr' = [FreshTrace EXCEPT !.dirBefore = outdir]
    /\ pc' = FirstStep(force_manual)
    /\ UNCHANGED <<env, force_manual, processed_count, outdir, callLocals, incomplete,
                   reported, hist>>

ShapeOf(v) == IF v = None THEN "None" ELSE IF IsDict(v) THEN "dict" ELSE "other"

\* call_ai_api returns v
Returns(t, v) == [t EXCEPT !.returned = TRUE, !.aiShape = ShapeOf(v)]

\* call_ai_api up to the retry loop: the configuration check, then the client.
EnterCallAi ==
    /\ pc = "call_ai"
    /\ \/ /\ IF ConfigMissing(OPENAI_BASE_URL, OPENAI_API_KEY)
             THEN /\ tr' = Returns([tr EXCEPT !.aiCalls = @ + 1], None)
                  /\ pc' = "decide"
             ELSE \/ /\ tr' = [tr EXCEPT !.aiCalls = @ + 1, !.configOk = TRUE,
                                         !.clientTried = TRUE, !.clientOk = TRUE]
                     /\ pc' = "attempt"
                  \/ \* OpenAI(...) raises: return None
                     /\ Catches("client")
                     /\ tr' = Returns([tr EXCEPT !.aiCalls = @ + 1, !.configOk = TRUE,
                                                 !.clientTried = TRUE], None)
                     /\ pc' = "decide"
          /\ ai_result' = None
          /\ attempt' = 0
          /\ content' = <<>>
          /\ UNCHANGED <<processed_count, outdir, file, text_content, use_manual,
                         final_result, new_name, final_name>>
       \/ \* OpenAI(...) raises and no handler catches it
          /\ ~ConfigMissing(OPENAI_BASE_URL, OPENAI_API_KEY)
          /\ ~Catches("client")
          /\ RaiseFrom(Escapes("client"),
                       [tr EXCEPT !.aiCalls = @ + 1, !.configOk = TRUE,
                                  !.clientTried = TRUE])
    /\ UNCHANGED <<env, force_manual, idx, incomplete, reported>>
    /\ Log

\* faulty variant of LoopEnds: one pass too many
LoopEnds_OffByOne(k) == k >= MaxAttempts

\* range(3) is exhausted after the pass with attempt = k
LoopEnds(k) == k + 1 >= MaxAttempts

\* A failed pass of the loop: the wait, then the next pass or return None;
\* a failure no handler catches leaves call_ai_api and process_file_with_ai.
\* c is the text of the response, if there was one.
FailedAttempt(kind, c) ==
    IF Catches(kind)
    THEN /\ tr' = LET t == [tr EXCEPT !.outcomes = Append(@, kind),
                                       !.slept = Append(@, SleepAfter(kind, attempt))]
                  IN  IF LoopEnds(attempt) THEN Returns(t, None) ELSE t
         /\ attempt' = attempt + 1
         /\ ai_result' = None
         /\ content' = c
         /\ pc' = IF LoopEnds(attempt) THEN "decide" ELSE "attempt"
         /\ UNCHANGED <<file, text_content, use_manual, final_result, new_name,
                        final_name, processed_count, outdir>>
    ELSE Raise(Escapes(kind))

\* One pass of "for attempt in range(3)".
Attempt ==
    /\ pc = "attempt"
    /\ \/ \* client.chat.completions.create raises
          FailedAttempt("transport", content)
       \/ \* content is None or choices is empty: the outer handler
          FailedAttempt("badcontent", content)
       \/ \E c \in Responses :
             IF JsonOk(CleanFence(c))
             THEN /\ content' = c
                  /\ tr' = Returns([tr EXCEPT !.outcomes = Append(@, "ok"),
                                              !.slept = Append(@, 0)],
                                 json_loads(CleanFence(c)))
                  /\ ai_result' = json_loads(CleanFence(c))
                  /\ attempt' = attempt
                  /\ pc' = "decide"
                  /\ UNCHANGED <<file, text_content, use_manual, final_result, new_name,
                                 final_name, processed_count, outdir>>
             ELSE FailedAttempt("malformed", c)
       \/ \* KeyboardInterrupt is no Exception: it leaves call_ai_api
          FailedAttempt("interrupt", content)
    /\ UNCHANGED <<env, force_manual, idx, incomplete, reported>>
    /\ Log

\* The frame of call_ai_api is gone: its per-call history is dropped.
CallOver(t) == [t EXCEPT !.outcomes = <<>>, !.slept = <<>>]

\* if ai_result is None: use_manual = True
\* elif isinstance(ai_result, dict): confidence < 0.7 asks the human
\* else: use_manual = True
\* A confidence that does not compare with 0.7 raises TypeError.
DecideBranch(ai) ==
    IF ai = None THEN "manual"
    ELSE IF IsDict(ai)
         THEN IF ~Comparable(Confidence(ai)) THEN "raise"
              ELSE IF LowConfidence(Confidence(ai)) THEN "ask" ELSE "accept"
         ELSE "manual"

\* The decision after call_ai_api returned.
Decide ==
    /\ pc = "decide"
    /\ IF DecideBranch(ai_result) = "raise"
       THEN Raise("exception")
       ELSE /\ use_manual' = (IF DecideBranch(ai_result) = "manual" THEN TRUE ELSE use_manual)
            /\ pc' = IF DecideBranch(ai_result) = "ask" THEN "confirm" ELSE "select"
            /\ tr' = CallOver(tr)
            /\ attempt' = 0
            /\ content' = <<>>
            /\ UNCHANGED <<file, text_content, ai_result, final_result, new_name,
                           final_name, processed_count, outdir>>
    /\ UNCHANGED <<env, force_manual, idx, incomplete, reported>>
    /\ Log

\* confirm = input(...).strip().lower(); if confirm == 'y': use_manual = True
Confirm ==
    /\ pc = "confirm"
    /\ \/ \E a \in YesNoAnswers :
             /\ use_manual' = (IF Affirmative(a) THEN TRUE ELSE use_manual)
             /\ tr' = [tr EXCEPT !.asked = @ + 1, !.answer = a]
             /\ pc' = "select"
             /\ UNCHANGED <<file, text_content, ai_result, final_result, new_name,
                            final_name, callLocals, processed_count, outdir>>
       \/ \* input() raises EOFError
          RaiseFrom("eof", [tr EXCEPT !.asked = @ + 1])
       \/ RaiseFrom("interrupt", [tr EXCEPT !.asked = @ + 1])
    /\ UNCHANGED <<env, force_manual, idx, incomplete, reported>>
    /\ Log

\* if use_manual: ... elif ai_result and isinstance(ai_result, dict): ... else: ...
Select ==
    /\ pc = "select"
    /\ IF use_manual
       THEN \/ /\ DisplayRaises(ai_result)
               /\ RaiseFrom("exception", [tr EXCEPT !.manualCalls = @ + 1])
            \/ \E m \in ManualInputs :
                 /\ ~DisplayRaises(ai_result)
                 /\ final_result' = manual_intervention(m[1], m[2], m[3])
                 /\ tr' = [tr EXCEPT !.manualCalls = @ + 1,
                                     !.manualRet = manual_intervention(m[1], m[2], m[3]),
                                     !.tier = "manual"]
                 /\ pc' = "name"
                 /\ UNCHANGED <<file, text_content, ai_result, use_manual, new_name,
                                final_name, callLocals, processed_count, outdir>>
            \/ \* a prompt of manual_intervention raises EOFError
               /\ ~DisplayRaises(ai_result)
               /\ RaiseFrom("eof", [tr EXCEPT !.manualCalls = @ + 1])
            \/ RaiseFrom("interrupt", [tr EXCEPT !.manualCalls = @ + 1])
       ELSE /\ IF UseAiResult(ai_result)
               THEN /\ final_result' = ai_result
                    /\ tr' = [tr EXCEPT !.tier = "ai",
                                        !.lacks = NameKeys \ DOMAIN ai_result.d]
               ELSE /\ final_result' = fallback_rule_engine(text_content, file)
                    /\ tr' = [tr EXCEPT !.ruleCalls = @ + 1, !.tier = "rule"]
            /\ pc' = "name"
            /\ UNCHANGED <<file, text_content, ai_result, use_manual, new_name,
                           final_name, callLocals, processed_count, outdir>>
    /\ UNCHANGED <<env, force_manual, idx, incomplete, reported>>
    /\ Log

\* final_result['exam_type'] ... new_path = output_dir / final_name
\* A missing key raises KeyError.
Name ==
    /\ pc = "name"
    /\ IF NameKeys \subseteq DOMAIN final_result.d
       THEN /\ new_name' = NewName(final_result)
            /\ final_name' = FinalName(NewName(final_result), outdir)
            /\ tr' = [tr EXCEPT !.named = TRUE,
                                !.final = FinalName(NewName(final_result), outdir)]
            /\ pc' = "file_op"
            /\ UNCHANGED <<file, text_content, ai_result, use_manual, final_result,
                           callLocals, processed_count, outdir>>
       ELSE Raise("exception")
    /\ UNCHANGED <<env, force_manual, idx, incomplete, reported>>
    /\ Log

TempName(name) == Stem(name) \o <<"_temp", ".", "pdf">>

\* process_file_with_ai returns: main counts the file.
Return(dir, wrote) ==
    /\ outdir' = dir
    /\ tr' = [tr EXCEPT !.written = wrote, !.outcome = "returned"]
    /\ processed_count' = processed_count + 1
    /\ pc' = "loop"
    /\ DropLocals

\* KeyboardInterrupt during the file operation: no handler of
\* process_file_with_ai catches it, output_dir stays as the operation left it.
InterruptedAt(dir) ==
    /\ outdir' = dir
    /\ tr' = [tr EXCEPT !.outcome = "interrupt"]
    /\ pc' = Handler("interrupt")
    /\ DropLocals
    /\ UNCHANGED processed_count

\* The file operation. An Exception of the copy or the conversion is caught
\* and printed inside process_file_with_ai, which then returns normally.
\* shutil.copy2 creates new_path and then fills it; convert() creates the
\* temporary pdf; either can stop half way.
FileOp ==
    /\ pc = "file_op"
    /\ \/ \* shutil.copy2 succeeds (pdf; docx without docx2pdf or without a temp file)
          /\ Return(outdir \cup {final_name}, TRUE)
          /\ UNCHANGED incomplete
       \/ \* convert() wrote the temporary pdf: rename it to new_path
          /\ IsWord(file)
          /\ Return((outdir \ {TempName(file)}) \cup {final_name}, TRUE)
          /\ UNCHANGED incomplete
       \/ \* the copy or the conversion raises before writing anything
          /\ Return(outdir, FALSE)
          /\ UNCHANGED incomplete
       \/ \* shutil.copy2 raises after creating new_path
          /\ Return(outdir \cup {final_name}, FALSE)
          /\ incomplete' = incomplete \cup {final_name}
       \/ \* convert() raises after creating the temporary pdf
          /\ IsWord(file)
          /\ Return(outdir \cup {TempName(file)}, FALSE)
          /\ UNCHANGED incomplete
       \/ \* KeyboardInterrupt before anything is written
          /\ InterruptedAt(outdir)
          /\ UNCHANGED incomplete
       \/ \* KeyboardInterrupt while shutil.copy2 fills new_path
          /\ InterruptedAt(outdir \cup {final_name})
          /\ incomplete' = incomplete \cup {final_name}
       \/ \* KeyboardInterrupt after convert() created the temporary pdf
          /\ IsWord(file)
          /\ InterruptedAt(outdir \cup {TempName(file)})
          /\ UNCHANGED incomplete
    /\ UNCHANGED <<env, force_manual, idx, reported>>
    /\ Log

Next ==
    \/ NoFiles
    \/ AskForceManual
    \/ StartFile
    \/ EnterCallAi
    \/ Attempt
    \/ Decide
    \/ Confirm
    \/ Select
    \/ Name
    \/ FileOp
    \/ Finish

Spec == Init /\ [][Next]_vars

(* ------------------------------ claims --------------------------------- *)

\* the escalation decision for the current file has been made
Decided == pc \in {"select", "name", "file_op"}
\* final_result has been assigned for the current file
Selected == pc \in {"name", "file_op"}
\* call_ai_api was invoked for the current file and has returned, and the
\* decision on its value has been made
CallDecided == ~force_manual /\ tr.returned /\ Decided
\* the value call_ai_api returned is a dict whose confidence is the number n
\* (a missing confidence reads as 0)
ConfidenceIs(n) ==
    /\ IsDict(ai_result)
    /\ IF "confidence" \in DOMAIN ai_result.d
       THEN ai_result.d["confidence"] = <<"num", n>>
       ELSE n = 0
\* the answers whose trimmed, lower-cased form is exactly 'y'
ExactlyY == {<<"y">>, <<" ", "Y", " ">>}
\* the waits of the backoff schedule, by position of the attempt (1, 2, 3)
Schedule == <<1, 2, 4>>

\* C1: whenever the processing of a file ends, by a normal return or by an
\* exception other than an interrupt or an end of input at a prompt, one of
\* the AI result, the manual result and the rule-engine result was selected
\* as the final result and an output path was computed.
C1_FinalResultAndPath ==
    tr.outcome \in {"returned", "exception"} =>
        tr.tier \in {"ai", "manual", "rule"} /\ tr.named

\* C2: when force_manual is false and call_ai_api returned None or a value
\* that is not a dict, the file is escalated, manual_intervention is invoked
\* and its return value is the final result (unless an interrupt or an end
\* of input stops the prompts); the rule engine is not used.
C2_AbsentOrWrongShapeEscalates ==
    (~force_manual /\ tr.returned /\ tr.aiShape \in {"None", "other"}) =>
        /\ tr.ruleCalls = 0
        /\ Decided => use_manual
        /\ Selected => /\ tr.tier = "manual"
                       /\ tr.manualCalls = 1
                       /\ final_result = tr.manualRet
        /\ tr.outcome \in {"returned", "exception"} =>
               /\ tr.manualCalls = 1
               /\ tr.tier = "manual"

\* C3: for an AI result dict with confidence >= 0.7 and force_manual false,
\* the final result is that dict unchanged and no human prompt (confirmation
\* question, manual_intervention) is invoked for the file.
C3_HighConfidencePassesThrough ==
    (CallDecided /\ \E n \in ConfThreshold..100 : ConfidenceIs(n)) =>
        /\ ~use_manual
        /\ tr.asked = 0
        /\ tr.manualCalls = 0
        /\ Selected => /\ final_result = ai_result
                       /\ tr.tier = "ai"

C3_Witness ==
    /\ CallDecided /\ pc = "file_op"
    /\ ConfidenceIs(ConfThreshold)
    /\ final_result = DictEdge

\* C4: for an AI result dict with confidence < 0.7 (missing counts as 0) and
\* force_manual false, the human is asked exactly once whether to escalate,
\* and the file is escalated (manual_intervention invoked) if and only if the
\* trimmed, lower-cased answer is exactly 'y'.
C4_LowConfidenceAsksOnce ==
    (~force_manual /\ tr.returned /\ \E n \in 0..(ConfThreshold - 1) : ConfidenceIs(n)) =>
        /\ pc = "confirm" => tr.asked = 0
        /\ Decided => /\ tr.asked = 1
                      /\ use_manual <=> tr.answer \in ExactlyY
        /\ Selected => /\ tr.manualCalls = (IF tr.answer \in ExactlyY THEN 1 ELSE 0)
                       /\ (tr.tier = "manual") <=> tr.answer \in ExactlyY

C4_Witness ==
    /\ CallDecided /\ pc = "file_op"
    /\ ConfidenceIs(69)
    /\ tr.answer = <<" ", "Y", " ">>
    /\ tr.manualCalls = 1

\* C5 as stated: whenever a file is not escalated and call_ai_api returned a
\* dict, whatever its contents, that dict is the final result and the rule
\* engine is not used.
C5_AnyDictIsFinal ==
    (CallDecided /\ Selected /\ ~use_manual /\ IsDict(ai_result)) =>
        /\ final_result = ai_result
        /\ tr.ruleCalls = 0

\* C5 amended: whenever a file is not escalated and call_ai_api returned a
\* non-empty dict, that dict is the final result and the rule engine is not
\* used; an empty dict, which Python treats as false, is not the final
\* result: the rule engine classifies the file.
C5_NonEmptyDictIsFinal ==
    (CallDecided /\ Selected /\ ~use_manual /\ IsDict(ai_result)) =>
        IF DOMAIN ai_result.d # {}
        THEN /\ final_result = ai_result
             /\ tr.tier = "ai"
             /\ tr.ruleCalls = 0
        ELSE /\ tr.tier = "rule"
             /\ tr.ruleCalls = 1
             /\ final_result.d["confidence"] = <<"num", RuleConfidence>>

C5_Witness ==
    /\ CallDecided /\ pc = "file_op" /\ ~use_manual
    /\ ai_result = DictLow
    /\ final_result = DictLow
    /\ tr.asked = 1

\* C6: when force_manual is true, call_ai_api is invoked for no file, every
\* file goes to manual_intervention, and the value manual_intervention
\* returns (confidence 1.0) is the final result.
C6_ForcedManual ==
    force_manual =>
        /\ tr.aiCalls = 0
        /\ pc \notin {"call_ai", "attempt", "decide", "confirm"}
        /\ tr.asked = 0
        /\ tr.ruleCalls = 0
        /\ pc = "select" => use_manual
        /\ tr.outcome # "running" => tr.manualCalls = 1
        /\ Selected => /\ tr.tier = "manual"
                       /\ tr.manualCalls = 1
                       /\ final_result = tr.manualRet
                       /\ final_result.d["confidence"] = <<"num", 100>>

C6_Witness ==
    /\ force_manual /\ idx = 2 /\ pc = "file_op"
    /\ tr.tier = "manual"

\* the texts of a response that json.loads accepts after the fence cleanup,
\* with the JSON text they carry
Parses(c, t) == t \in JsonTexts /\ c \in {<<t>>, <<"FENCE_JSON", "nl", t, "nl", "FENCE">>}
\* call_ai_api has returned from its retry loop
LoopReturned == pc = "decide" /\ tr.clientOk
AllFailed == \A i \in 1..Len(tr.outcomes) : tr.outcomes[i] \in FailureKinds
StoppedAtFirstSuccess ==
    /\ tr.outcomes # <<>>
    /\ tr.outcomes[Len(tr.outcomes)] = "ok"
    /\ \A i \in 1..(Len(tr.outcomes) - 1) : tr.outcomes[i] \in FailureKinds

C8_BackoffSchedule ==
    pc \in {"attempt", "decide"} =>
        /\ Len(tr.slept) = Len(tr.outcomes)
        /\ \A i \in 1..Len(tr.outcomes) :
              tr.outcomes[i] = "transport" => i <= 3 /\ tr.slept[i] = Schedule[i]
        /\ SumSeq(tr.slept) <= 7

C8_Witness ==
    /\ pc = "decide"
    /\ tr.outcomes = <<"transport", "transport", "transport">>
    /\ tr.slept = <<1, 2, 4>>

\* C9 as stated: a response that is not valid JSON after the fence cleanup
\* is followed by the same wait as a transport failure on that attempt.
C9_MalformedWaitsLikeTransport ==
    pc \in {"attempt", "decide"} =>
        \A i \in 1..Len(tr.outcomes) :
            tr.outcomes[i] = "malformed" => i <= 3 /\ tr.slept[i] = Schedule[i]

\* C9 amended: a response that is not valid JSON after the fence cleanup
\* consumes one of the 3 attempts and is retried within the same budget
\* rather than propagated, like a transport failure, but no wait follows it:
\* the next try is made at once.
C9_MalformedRetriesAtOnce ==
    pc \in {"attempt", "decide"} =>
        \A i \in 1..Len(tr.outcomes) :
            tr.outcomes[i] = "malformed" =>
                /\ i <= 3
                /\ tr.slept[i] = 0
                /\ tr.outcome = "running"
                /\ i = Len(tr.outcomes) =>
                      IF i < 3 THEN pc = "attempt" /\ attempt = i
                      ELSE pc = "decide" /\ ai_result = None

C9_Witness ==
    /\ pc = "decide"
    /\ tr.outcomes = <<"malformed", "transport", "malformed">>
    /\ tr.slept = <<0, 2, 0>>
    /\ content = <<"FENCE", "nl", "J_high", "nl", "FENCE">>

\* C10: if the endpoint or the credential is missing (unset or empty),
\* call_ai_api returns None without constructing the client and without any
\* remote call; the client is constructed only after the check passed.
C10_MissingConfigShortCircuits ==
    /\ (OPENAI_BASE_URL # "set" \/ OPENAI_API_KEY # "set") =>
          /\ ~tr.clientTried
          /\ tr.outcomes = <<>>
          /\ pc # "attempt"
          /\ (pc = "decide" => tr.returned /\ ai_result = None)
    /\ tr.clientTried => tr.configOk

C10_Witness ==
    /\ pc = "decide" /\ tr.returned /\ tr.aiCalls = 1
    /\ OPENAI_BASE_URL = "set" /\ OPENAI_API_KEY = "empty"
    /\ ai_result = None

\* C11: call_ai_api never raises to its caller: whatever the sequence of
\* outcomes of its attempts (the client cannot be constructed, the call
\* raises, the response carries no text, the text is not JSON), an invocation
\* that has been left was left by a return, of None or of the value parsed
\* from the response it stopped at, and no exception of process_file_with_ai
\* comes out of it (a user interrupt is no such outcome and passes through).
C11_CallAiNeverRaises ==
    /\ (tr.aiCalls > 0 /\ ~tr.returned) =>
          \/ pc = "attempt" /\ tr.outcome = "running"
          \/ tr.outcome = "interrupt"
    /\ (pc = "decide" /\ tr.aiCalls > 0) =>
          /\ tr.returned
          /\ tr.outcome = "running"
          /\ \/ ai_result = None
             \/ /\ StoppedAtFirstSuccess
                /\ ai_result = json_loads(CleanFence(content))

C11_Witness ==
    /\ pc = "decide" /\ tr.returned
    /\ tr.outcomes = <<"badcontent", "malformed", "transport">>
    /\ ai_result = None

\* C12: the name computed for a file depends on its final classification and
\* on the names present in the output directory only: it is the base name if
\* that is absent, otherwise base_k for the smallest k >= 1 whose name is
\* absent; it is never a name present in the directory; the step leaves the
\* directory as it was, so resolving again gives the same name.
C12_SmallestFreeSuffix ==
    pc = "file_op" =>
        /\ new_name = NewName(final_result)
        /\ outdir = tr.dirBefore
        /\ final_name \notin outdir
        /\ IF new_name \notin outdir
           THEN final_name = new_name
           ELSE \E k \in 1..Cardinality(outdir) :
                   /\ final_name = Suffixed(new_name, k)
                   /\ \A j \in 1..(k - 1) : Suffixed(new_name, j) \in outdir
        /\ FinalName(NewName(final_result), outdir) = final_name

C12_Witness ==
    /\ pc = "file_op"
    /\ new_name = DefaultName
    /\ {DefaultName, Suffixed(DefaultName, 1)} \subseteq outdir
    /\ final_name = <<"qimo", "-", "weizhi xueqi", "-", "wudaan", "_", "2", ".", "pdf">>

\* C13: for every final result, whichever tier produced it, the base output
\* name is exam_type, "-", semester, "-", has_answer, ".pdf", built from the
\* three fields of that final result.
C13_NameFromThreeFields ==
    pc = "file_op" =>
        new_name = final_result.d["exam_type"] \o <<"-">> \o final_result.d["semester"]
                   \o <<"-">> \o final_result.d["has_answer"] \o <<".", "pdf">>

\* the queue positions of the files taken so far, in the order they ended
Positions == [i \in 1..Len(hist) |-> hist[i].pos]
\* some file of the run was ended by a user interrupt
Interrupted == \E i \in 1..Len(hist) : hist[i].outcome = "interrupt"
\* the number of files whose call of process_file_with_ai returned
Completed == Cardinality({i \in 1..Len(hist) : hist[i].outcome = "returned"})

\* C14: an exception other than a user interrupt raised while one file is
\* processed never aborts the run: the loop goes on with the next file, and
\* a run without interrupt reports completion only after every file of the
\* queue was attempted exactly once, in queue order.
C14_ErrorsDoNotAbort ==
    /\ Positions = [i \in 1..Len(hist) |-> i]
    /\ pc = "interrupted" => hist[Len(hist)].outcome = "interrupt"
    /\ (pc = "done" /\ ~Interrupted) =>
          /\ Len(hist) = nfiles
          /\ nfiles > 0 => reported # NotReported
    /\ pc # "done" => reported = NotReported

C14_Witness ==
    /\ pc = "done" /\ nfiles = 2 /\ reported = 1
    /\ hist[1].outcome = "exception"
    /\ hist[2].outcome = "returned"

C16_AtomicMaterialization ==
    tr.outcome # "running" =>
        \/ outdir = tr.dirBefore
        \/ /\ tr.final # NoName
           /\ outdir = tr.dirBefore \cup {tr.final}
           /\ tr.final \notin incomplete

\* the text "2023-2024 xue nian di yi xue qi, qizhong, han daan" of the
\* keyword test
KeywordText ==
    <<"2023", "-", "2024", "xue", "nian", "di", "yi", "xue", "qi", " ", "qizhong", " ",
      "han", "daan">>

\* C17: fallback_rule_engine applied to a text containing the keyword text
\* returns exam_type 'mid-term', semester "2023-2024" and has_answer 'with
\* answers'.
C17_KeywordTextGivesRange ==
    (Selected /\ tr.tier = "rule" /\ Contains(text_content, KeywordText)) =>
        /\ final_result.d["exam_type"] = <<"qizhong">>
        /\ final_result.d["semester"] = <<"2023", "-", "2024">>
        /\ final_result.d["has_answer"] = <<"daidaan">>

\* C18: an AI result dict that lacks one of the keys exam_type, semester and
\* has_answer and is accepted as the final result is read with a default:
\* unless an interrupt stops it, the processing of the file ends by a return,
\* with an output name computed, never by an exception.
C18_MissingKeyReadWithDefault ==
    (tr.tier = "ai" /\ tr.lacks # {} /\ tr.outcome \notin {"running", "interrupt"}) =>
        /\ tr.outcome = "returned"
        /\ tr.named

\* the number of files for which the file operation put the output in place
Materialized == Cardinality({i \in 1..Len(hist) : hist[i].written})

\* C19: the count the run reports at its end equals the number of files for
\* which an output file was materialized during the run; a file whose copy or
\* conversion failed is not counted.
C19_ReportedIsMaterialized ==
    (pc = "done" /\ reported # NotReported) => reported = Materialized

\* C20: each successful materialization adds exactly one new entry, the
\* file's final name, to the output directory, and neither overwrites nor
\* removes an entry that was there when the file was taken.
C20_AddsOneRemovesNone ==
    (tr.outcome = "returned" /\ tr.written) =>
        /\ tr.final \notin tr.dirBefore
        /\ outdir = tr.dirBefore \cup {tr.final}

====
